---- MODULE Spec2Model ----
(***************************************************************************)
(* eptdir: recursive removal of junk files and of empty directories.       *)
(*                                                                         *)
(* The filesystem is a function from the paths that exist to the kind of   *)
(* entry found there.  A path is a sequence of base names.  The kind is    *)
(* what Path::is_file / Path::is_dir report: "file" (is_file() is true),   *)
(* "dir" (is_dir() is true) or "other" (both are false: a special file, a  *)
(* dangling symbolic link, an entry whose metadata cannot be read).        *)
(*                                                                         *)
(* The three library functions run on an explicit call stack, one step per *)
(* filesystem operation.  A filesystem operation may fail (permission      *)
(* denied, file in use ...); the number of injected failures is bounded.   *)
(***************************************************************************)
EXTENDS Integers, Sequences, FiniteSets, TLC

\* ---------------------------------------------------------------- bounds
MaxEntries == 4
MaxDepth == 3
MaxCalls == 2
MaxFaults == 1
MaxRoots == 2
MaxBatchEntries == 3
MaxFairEntries == 3
MaxEquivEntries == 3
MaxFailAt == 36

\* ----------------------------------------------------------------- names
\* lib.rs:7
JUNK_FILES == <<"thumbs.db", ".DS_Store">>

\* Base names of entries below a root.  "Thumbs.db" differs from a denylist
\* entry only by case; "\\xFFthumbs.db" stands for a name that is not UTF-8.
Names == {"thumbs.db", ".DS_Store", "Thumbs.db", "\\xFFthumbs.db"}
NotUtf8 == {"\\xFFthumbs.db"}

\* Names of the top-level directories handed to the program.
RootNames == <<"r1", "r2", "r3", "r4">>

Kinds == {"file", "dir", "other"}

\* The names an initial entry of each kind is given.  Only the name of a
\* regular file is ever read (lib.rs:98-114), so a directory gets one of two
\* names and any other entry one name, each of them a denylist entry or its
\* case variant.
NamesOf(kind) ==
    IF kind = "file" THEN Names
    ELSE IF kind = "dir" THEN {"thumbs.db", "Thumbs.db"}
    ELSE {"thumbs.db"}

\* OsStr::to_str: Some(name) for valid UTF-8, None otherwise (an Option is
\* modelled as a set with at most one element).
to_str(name) == IF name \in NotUtf8 THEN {} ELSE {name}

\* ASCII lower-casing, used only to state what a case-insensitive match
\* would be.
Lower(name) == IF name = "Thumbs.db" THEN "thumbs.db" ELSE name

contains_nocase(list, s) == \E i \in DOMAIN list : Lower(list[i]) = Lower(s)
contains_first(list, s) == list[1] = s
\* <[&str]>::contains
contains(list, s) == \E i \in DOMAIN list : list[i] = s

\* lib.rs:105-114: the entry's base name decodes and is on the denylist.
IsJunkName(name) == \E s \in to_str(name) : contains(JUNK_FILES, s)

\* ------------------------------------------------------------ filesystem
Last(p) == p[Len(p)]
Parent(p) == SubSeq(p, 1, Len(p) - 1)
IsPrefix(p, q) == Len(p) <= Len(q) /\ SubSeq(q, 1, Len(p)) = p

Exists(f, p) == p \in DOMAIN f
IsFile(f, p) == Exists(f, p) /\ f[p] = "file"
IsDir(f, p) == Exists(f, p) /\ f[p] = "dir"

\* The entries fs::read_dir yields for directory p.
Children(f, p) == {q \in DOMAIN f : Len(q) = Len(p) + 1 /\ Parent(q) = p}
\* p and everything below it.
Subtree(f, p) == {q \in DOMAIN f : IsPrefix(p, q)}

Without(f, ps) == [q \in (DOMAIN f) \ ps |-> f[q]]
With(f, p, k) == [q \in (DOMAIN f) \cup {p} |-> IF q = p THEN k ELSE f[q]]

\* fs::read_dir succeeds only on a directory.
CanReadDir(f, p) == IsDir(f, p)

remove_file_keep(f, p) == [ok |-> Exists(f, p) /\ f[p] # "dir", fs |-> f]
\* fs::remove_file: unlinks a non-directory entry.
remove_file(f, p) ==
    IF Exists(f, p) /\ f[p] # "dir"
    THEN [ok |-> TRUE, fs |-> Without(f, {p})]
    ELSE [ok |-> FALSE, fs |-> f]

remove_dir_all(f, p) ==
    IF IsDir(f, p)
    THEN [ok |-> TRUE, fs |-> Without(f, Subtree(f, p))]
    ELSE [ok |-> FALSE, fs |-> f]
\* fs::remove_dir: removes an existing directory that has no entries.
remove_dir(f, p) ==
    IF IsDir(f, p) /\ Children(f, p) = {}
    THEN [ok |-> TRUE, fs |-> Without(f, {p})]
    ELSE [ok |-> FALSE, fs |-> f]

\* -------------------------------------------------- initial filesystems
EmptyFs == [q \in {} |-> "dir"]

\* The directories of f in which a new entry can be created.
OpenDirs(f) == {q \in DOMAIN f : f[q] = "dir" /\ Len(q) < MaxDepth}

\* The entries <<path, kind>> that can be created in a directory of f.
NewEntries(f) ==
    {e \in {<<Append(d, n), k>> : d \in OpenDirs(f), n \in Names, k \in Kinds} :
        e[1] \notin DOMAIN f /\ Last(e[1]) \in NamesOf(e[2])}

\* f with one more entry: a root of any kind, or a new entry in a directory.
Grow(f, roots) ==
    {With(f, <<r>>, k) : r \in {x \in roots : <<x>> \notin DOMAIN f}, k \in Kinds}
    \cup {With(f, e[1], e[2]) : e \in NewEntries(f)}

RECURSIVE Trees(_, _)
\* Every filesystem with at most n entries below the given root names.
Trees(n, roots) ==
    IF n = 0 THEN {EmptyFs}
    ELSE LET T == Trees(n - 1, roots)
         IN  T \cup UNION {Grow(f, roots) : f \in T}

\* ----------------------------------------------------------------- state
VARIABLES
    fs,             \* the filesystem: existing path -> kind
    stack,          \* call stack of the library functions, innermost last
    done,           \* completed top-level calls: [fn, dir, ret], oldest first
    pre,            \* the filesystem when the current top-level call began
    last,           \* the call that returned most recently: [fn, dir, ret]
    faults,         \* I/O failures injected so far
    failed,         \* the filesystem operation that failed most recently
    external,       \* directories another process deleted during the call
    equiv,          \* one run of the lib.rs and of the main.rs copy of a function
    state,          \* clean_directory's state for the root it last ran on
    target_dirs,    \* main.rs: the roots given on the command line
    index,          \* main.rs: number of roots the loop has finished
    success_count,  \* main.rs:42
    error_count,    \* main.rs:43
    exit_code       \* process exit code, -1 while main is running

vars == <<fs, stack, done, pre, last, faults, failed, external, equiv, state,
          target_dirs, index, success_count, error_count, exit_code>>
mainVars == <<target_dirs, index, success_count, error_count, exit_code>>

\* Result<usize, _>, Result<bool, _> and Result<(), _> in one record shape.
OkCount(n) == [ok |-> TRUE, count |-> n, removed |-> FALSE]
OkBool(b) == [ok |-> TRUE, count |-> 0, removed |-> b]
OkUnit == [ok |-> TRUE, count |-> 0, removed |-> FALSE]
Err == [ok |-> FALSE, count |-> 0, removed |-> FALSE]

\* No call has returned yet.
NoCall == [fn |-> "none", dir |-> <<>>, ret |-> OkUnit]

Frame(fn, dir, pc) ==
    [fn |-> fn, dir |-> dir, pc |-> pc, entries |-> {}, subdirs |-> {}, deleted_count |-> 0]

Top == stack[Len(stack)]
Rest == SubSeq(stack, 1, Len(stack) - 1)
Running(fn) == stack # <<>> /\ Top.fn = fn
SetTop(fr) == [stack EXCEPT ![Len(stack)] = fr]

\* The operation op at lib.rs line `line` failed on path.
Failure(op, line, path) == [op |-> op, line |-> line, path |-> path]
NoFailure == [op |-> "none", line |-> 0, path |-> <<>>]

\* Neither copy has been run.
NoRun == [fn |-> "none"]

\* A failure of a filesystem operation that would otherwise succeed.
Fault == faults < MaxFaults /\ faults' = faults + 1
NoFault == faults' = faults

resume_repeating(stk, r) ==
    LET c == stk[Len(stk)]
    IN  IF c.fn = "remove_junk_files"
        THEN [stack |-> [stk EXCEPT ![Len(stk)].deleted_count = @ + r.count],
              out |-> <<>>]
        ELSE IF c.fn = "clean_directory"
        THEN [stack |-> [stk EXCEPT ![Len(stk)].pc =
                            IF @ = "Validated" THEN "JunkPurged" ELSE "Validated"],
              out |-> <<>>]
        ELSE [stack |-> stk, out |-> <<>>]

\* An Ok resumes the caller c, the innermost frame of stk: remove_junk_files
\* adds the count (lib.rs:138), clean_directory goes on to its next state
\* (lib.rs:38-42, 57-61), remove_empty_dirs goes on with its loop
\* (lib.rs:193).
Resume(stk, r) ==
    LET c == stk[Len(stk)]
    IN  IF c.fn = "remove_junk_files"
        THEN [stack |-> [stk EXCEPT ![Len(stk)].deleted_count = @ + r.count],
              out |-> <<>>]
        ELSE IF c.fn = "clean_directory"
        THEN [stack |-> [stk EXCEPT ![Len(stk)].pc =
                            IF @ = "Validated" THEN "JunkPurged" ELSE "Collapsed"],
              out |-> <<>>]
        ELSE [stack |-> stk, out |-> <<>>]

RECURSIVE unwind_ignoring_purge_error(_, _)
unwind_ignoring_purge_error(stk, r) ==
    IF stk = <<>> THEN [stack |-> <<>>, out |-> <<r>>]
    ELSE LET c == stk[Len(stk)]
         IN  IF ~r.ok /\ c.fn = "clean_directory" /\ c.pc = "Validated"
             THEN Resume(stk, OkCount(0))
             ELSE IF ~r.ok
             THEN unwind_ignoring_purge_error(SubSeq(stk, 1, Len(stk) - 1), Err)
             ELSE Resume(stk, r)

RECURSIVE unwind_skipping_failed_subdir(_, _)
unwind_skipping_failed_subdir(stk, r) ==
    IF stk = <<>> THEN [stack |-> <<>>, out |-> <<r>>]
    ELSE LET c == stk[Len(stk)]
         IN  IF ~r.ok /\ c.fn = "remove_junk_files"
             THEN Resume(stk, OkCount(0))
             ELSE IF ~r.ok
             THEN unwind_skipping_failed_subdir(SubSeq(stk, 1, Len(stk) - 1), Err)
             ELSE Resume(stk, r)

RECURSIVE unwind_ignoring_collapse_error(_, _)
unwind_ignoring_collapse_error(stk, r) ==
    IF stk = <<>> THEN [stack |-> <<>>, out |-> <<r>>]
    ELSE LET c == stk[Len(stk)]
         IN  IF ~r.ok /\ c.fn = "clean_directory" /\ c.pc = "JunkPurged"
             THEN Resume(stk, OkBool(FALSE))
             ELSE IF ~r.ok
             THEN unwind_ignoring_collapse_error(SubSeq(stk, 1, Len(stk) - 1), Err)
             ELSE Resume(stk, r)

RECURSIVE Unwind(_, _)
\* The callee returned r to the frames in stk: an Err goes up through every
\* `?` (lib.rs:138, 193) and through clean_directory's `return Err(e)`
\* (lib.rs:47, 64); an Ok resumes the caller.  out is the value handed to the
\* outermost caller, if the unwinding got that far.
Unwind(stk, r) ==
    IF stk = <<>> THEN [stack |-> <<>>, out |-> <<r>>]
    ELSE IF ~r.ok THEN Unwind(SubSeq(stk, 1, Len(stk) - 1), Err)
    ELSE Resume(stk, r)

\* The innermost frame returns r.
Return(r) ==
    LET u == Unwind(Rest, r)
    IN  /\ stack' = u.stack
        /\ last' = [fn |-> Top.fn, dir |-> Top.dir, ret |-> r]
        /\ state' = IF stack[1].fn # "clean_directory" THEN state
                    ELSE IF u.stack = <<>> THEN "Failed"
                    ELSE u.stack[1].pc
        /\ done' = IF u.out = <<>> THEN done
                   ELSE Append(done, [fn |-> stack[1].fn, dir |-> stack[1].dir,
                                      ret |-> u.out[1], state |-> state'])

\* ------------------------------------------------------ remove_junk_files
\* lib.rs:83, Ok: the directory's entries are enumerated.
JunkReadDir ==
    /\ Running("remove_junk_files") /\ Top.pc = "read_dir"
    /\ CanReadDir(fs, Top.dir)
    /\ stack' = SetTop([Top EXCEPT !.pc = "loop", !.entries = Children(fs, Top.dir)])
    /\ UNCHANGED <<fs, done, pre, last, faults, state, mainVars, failed, external, equiv>>

\* lib.rs:83, Err: `?` returns the error.
JunkReadDirErr ==
    /\ Running("remove_junk_files") /\ Top.pc = "read_dir"
    /\ \/ ~CanReadDir(fs, Top.dir) /\ NoFault
       \/ CanReadDir(fs, Top.dir) /\ Fault
    /\ Return(Err)
    /\ failed' = Failure("read_dir", 83, Top.dir)
    /\ UNCHANGED <<fs, pre, mainVars, external, equiv>>

\* lib.rs:91: the iterator yields an error for the next entry.
JunkEntryErr ==
    /\ Running("remove_junk_files") /\ Top.pc = "loop"
    /\ Fault
    /\ Return(Err)
    /\ failed' = Failure("next", 91, Top.dir)
    /\ UNCHANGED <<fs, pre, mainVars, external, equiv>>

\* lib.rs:98-130: a regular file; it is removed and counted when its name is
\* on the denylist.
JunkVisitFile ==
    /\ Running("remove_junk_files") /\ Top.pc = "loop"
    /\ \E e \in Top.entries :
        /\ IsFile(fs, e)
        /\ IF IsJunkName(Last(e))
           THEN /\ remove_file(fs, e).ok
                /\ fs' = remove_file(fs, e).fs
                /\ stack' = SetTop([Top EXCEPT !.entries = @ \ {e},
                                               !.deleted_count = @ + 1])
           ELSE /\ fs' = fs
                /\ stack' = SetTop([Top EXCEPT !.entries = @ \ {e}])
    /\ UNCHANGED <<done, pre, last, faults, state, mainVars, failed, external, equiv>>

\* lib.rs:123, Err: the matched file cannot be deleted.
JunkRemoveFileErr ==
    /\ Running("remove_junk_files") /\ Top.pc = "loop"
    /\ \E e \in Top.entries :
        /\ IsFile(fs, e) /\ IsJunkName(Last(e))
        /\ \/ ~remove_file(fs, e).ok /\ NoFault
           \/ remove_file(fs, e).ok /\ Fault
        /\ failed' = Failure("remove_file", 123, e)
    /\ Return(Err)
    /\ UNCHANGED <<fs, pre, mainVars, external, equiv>>

\* lib.rs:132-139: a subdirectory; recurse into it.
JunkVisitDir ==
    /\ Running("remove_junk_files") /\ Top.pc = "loop"
    /\ \E e \in Top.entries :
        /\ ~IsFile(fs, e) /\ IsDir(fs, e)
        /\ stack' = Append(SetTop([Top EXCEPT !.entries = @ \ {e}]),
                           Frame("remove_junk_files", e, "read_dir"))
    /\ UNCHANGED <<fs, done, pre, last, faults, state, mainVars, failed, external, equiv>>

\* lib.rs:98, 132: neither is_file() nor is_dir(); the entry is passed over.
JunkSkip ==
    /\ Running("remove_junk_files") /\ Top.pc = "loop"
    /\ \E e \in Top.entries :
        /\ ~IsFile(fs, e) /\ ~IsDir(fs, e)
        /\ stack' = SetTop([Top EXCEPT !.entries = @ \ {e}])
    /\ UNCHANGED <<fs, done, pre, last, faults, state, mainVars, failed, external, equiv>>

junk_return_collapsing ==
    /\ Running("remove_junk_files") /\ Top.pc = "loop"
    /\ Top.entries = {}
    /\ fs' = remove_dir(fs, Top.dir).fs
    /\ Return(OkCount(Top.deleted_count))
    /\ UNCHANGED <<pre, faults, mainVars, failed, external, equiv>>

\* lib.rs:143
JunkReturn ==
    /\ Running("remove_junk_files") /\ Top.pc = "loop"
    /\ Top.entries = {}
    /\ Return(OkCount(Top.deleted_count))
    /\ UNCHANGED <<fs, pre, faults, mainVars, failed, external, equiv>>

remove_junk_files ==
    \/ JunkReadDir \/ JunkReadDirErr \/ JunkEntryErr \/ JunkVisitFile
    \/ JunkRemoveFileErr \/ JunkVisitDir \/ JunkSkip \/ JunkReturn


\* ------------------------------------------------------ remove_empty_dirs
always_directory(f, p) == TRUE
\* lib.rs:150-159: the path exists and is a directory.
is_directory(f, p) == Exists(f, p) /\ IsDir(f, p)

collect_files(f, p) == {q \in Children(f, p) : IsFile(f, q)}
\* lib.rs:168-185: the entries of p that are directories.
collect_subdirs(f, p) == {q \in Children(f, p) : IsDir(f, q)}

no_subdirs(f, p) == \A q \in Children(f, p) : ~IsDir(f, q)
\* lib.rs:207: entries.next().is_none()
no_entries(f, p) == Children(f, p) = {}

\* The recursion over the collected subdirectories is over (lib.rs:189-195),
\* or was skipped because the first read_dir failed (lib.rs:164).
AtRecheck ==
    /\ Running("remove_empty_dirs")
    /\ \/ Top.pc = "recheck"
       \/ Top.pc = "recurse" /\ Top.subdirs = {}

\* lib.rs:150-185: Ok(false) for a path that is missing or not a directory;
\* otherwise the entries are enumerated and the subdirectories among them
\* collected.
EmptyStart ==
    /\ Running("remove_empty_dirs") /\ Top.pc = "start"
    /\ IF ~is_directory(fs, Top.dir)
       THEN /\ Return(OkBool(FALSE))
            /\ UNCHANGED <<fs, pre, faults, mainVars, failed, external, equiv>>
       ELSE /\ CanReadDir(fs, Top.dir)
            /\ stack' = SetTop([Top EXCEPT
                    !.pc = "recurse",
                    !.subdirs = collect_subdirs(fs, Top.dir)])
            /\ UNCHANGED <<fs, done, pre, last, faults, state, mainVars, failed, external, equiv>>

\* lib.rs:164: read_dir fails, `if let Ok` does not match, the block is
\* skipped.
EmptyReadDirErr ==
    /\ Running("remove_empty_dirs") /\ Top.pc = "start"
    /\ is_directory(fs, Top.dir)
    /\ \/ ~CanReadDir(fs, Top.dir) /\ NoFault
       \/ CanReadDir(fs, Top.dir) /\ Fault
    /\ stack' = SetTop([Top EXCEPT !.pc = "recheck"])
    /\ failed' = Failure("read_dir", 164, Top.dir)
    /\ UNCHANGED <<fs, done, pre, last, state, mainVars, external, equiv>>

\* lib.rs:174: the iterator yields an error; `?` returns it.
EmptyEntryErr ==
    /\ Running("remove_empty_dirs") /\ Top.pc = "start"
    /\ is_directory(fs, Top.dir)
    /\ CanReadDir(fs, Top.dir)
    /\ Fault
    /\ Return(Err)
    /\ failed' = Failure("next", 174, Top.dir)
    /\ UNCHANGED <<fs, pre, mainVars, external, equiv>>

\* lib.rs:189-194: recurse into the next collected subdirectory.
EmptyRecurse ==
    /\ Running("remove_empty_dirs") /\ Top.pc = "recurse"
    /\ \E d \in Top.subdirs :
        stack' = Append(SetTop([Top EXCEPT !.subdirs = @ \ {d}]),
                        Frame("remove_empty_dirs", d, "start"))
    /\ UNCHANGED <<fs, done, pre, last, faults, state, mainVars, failed, external, equiv>>

recheck_failed_propagates == Err
\* lib.rs:220-225: what the call returns when the second read_dir fails.
recheck_failed == OkBool(TRUE)

recheck_kept_as_removed == OkBool(TRUE)
\* lib.rs:229: what the call returns when the directory is not empty.
recheck_kept == OkBool(FALSE)

\* lib.rs:200, 220-225: the second read_dir fails; Ok(true).
EmptyRecheckErr ==
    /\ AtRecheck
    /\ \/ ~CanReadDir(fs, Top.dir) /\ NoFault
       \/ CanReadDir(fs, Top.dir) /\ Fault
    /\ Return(recheck_failed)
    /\ failed' = Failure("read_dir", 200, Top.dir)
    /\ UNCHANGED <<fs, pre, mainVars, external, equiv>>

\* lib.rs:207, 229: next() yields an error, which is not None; Ok(false).
EmptyRecheckEntryErr ==
    /\ AtRecheck
    /\ CanReadDir(fs, Top.dir)
    /\ Fault
    /\ Return(OkBool(FALSE))
    /\ failed' = Failure("next", 207, Top.dir)
    /\ UNCHANGED <<fs, pre, mainVars, external, equiv>>

\* lib.rs:207, 229: entries remain; Ok(false).
EmptyRecheckKeep ==
    /\ AtRecheck
    /\ CanReadDir(fs, Top.dir)
    /\ ~no_entries(fs, Top.dir)
    /\ Return(recheck_kept)
    /\ UNCHANGED <<fs, pre, faults, mainVars, failed, external, equiv>>

\* lib.rs:207-209: no entry; the directory is about to be removed.
EmptyRecheckEmpty ==
    /\ AtRecheck
    /\ CanReadDir(fs, Top.dir)
    /\ no_entries(fs, Top.dir)
    /\ stack' = SetTop([Top EXCEPT !.pc = "remove_dir"])
    /\ UNCHANGED <<fs, done, pre, last, faults, state, mainVars, failed, external, equiv>>

\* lib.rs:212-215: the directory is removed; Ok(true).
EmptyRemoveDir ==
    /\ Running("remove_empty_dirs") /\ Top.pc = "remove_dir"
    /\ remove_dir(fs, Top.dir).ok
    /\ fs' = remove_dir(fs, Top.dir).fs
    /\ Return(OkBool(TRUE))
    /\ UNCHANGED <<pre, faults, mainVars, failed, external, equiv>>

\* lib.rs:212, Err: `?` returns the error.
EmptyRemoveDirErr ==
    /\ Running("remove_empty_dirs") /\ Top.pc = "remove_dir"
    /\ \/ ~remove_dir(fs, Top.dir).ok /\ NoFault
       \/ remove_dir(fs, Top.dir).ok /\ Fault
    /\ Return(Err)
    /\ failed' = Failure("remove_dir", 212, Top.dir)
    /\ UNCHANGED <<fs, pre, mainVars, external, equiv>>

remove_empty_dirs ==
    \/ EmptyStart \/ EmptyReadDirErr \/ EmptyEntryErr
    \/ EmptyRecurse \/ EmptyRecheckErr \/ EmptyRecheckEntryErr
    \/ EmptyRecheckKeep \/ EmptyRecheckEmpty \/ EmptyRemoveDir
    \/ EmptyRemoveDirErr

\* -------------------------------------------------------- clean_directory
exists_only(f, p) == Exists(f, p)
\* lib.rs:17-27: the root exists and is a directory.
valid_root(f, p) == Exists(f, p) /\ IsDir(f, p)

\* Where each function starts.
EntryPc(fn) ==
    IF fn = "clean_directory" THEN "Unvalidated"
    ELSE IF fn = "remove_junk_files" THEN "read_dir" ELSE "start"

phases_swapped(pc) ==
    IF pc = "Validated" THEN "remove_empty_dirs" ELSE "remove_junk_files"
\* lib.rs:37, 56: the phase clean_directory calls from state pc.
phase(pc) ==
    IF pc = "Validated" THEN "remove_junk_files" ELSE "remove_empty_dirs"

\* clean_directory returns r to its caller.
CleanReturns(r, st) ==
    /\ stack' = <<>>
    /\ done' = Append(done, [fn |-> "clean_directory", dir |-> Top.dir,
                             ret |-> r, state |-> st])
    /\ last' = [fn |-> "clean_directory", dir |-> Top.dir, ret |-> r]
    /\ state' = st

\* lib.rs:17-27: a missing root or a root that is not a directory is skipped.
CleanSkip ==
    /\ Running("clean_directory") /\ Top.pc = "Unvalidated"
    /\ ~valid_root(fs, Top.dir)
    /\ CleanReturns(OkUnit, "Skipped")
    /\ UNCHANGED <<fs, pre, faults, mainVars, failed, external, equiv>>

\* lib.rs:17-30
CleanValidate ==
    /\ Running("clean_directory") /\ Top.pc = "Unvalidated"
    /\ valid_root(fs, Top.dir)
    /\ stack' = SetTop([Top EXCEPT !.pc = "Validated"])
    /\ state' = "Validated"
    /\ UNCHANGED <<fs, done, pre, last, faults, mainVars, failed, external, equiv>>

\* lib.rs:37: the junk purge is called.
CleanPurge ==
    /\ Running("clean_directory") /\ Top.pc = "Validated"
    /\ stack' = Append(stack, Frame(phase(Top.pc), Top.dir, EntryPc(phase(Top.pc))))
    /\ UNCHANGED <<fs, done, pre, last, faults, state, mainVars, failed, external, equiv>>

\* lib.rs:56: the collapse of empty directories is called.
CleanCollapse ==
    /\ Running("clean_directory") /\ Top.pc = "JunkPurged"
    /\ stack' = Append(stack, Frame(phase(Top.pc), Top.dir, EntryPc(phase(Top.pc))))
    /\ UNCHANGED <<fs, done, pre, last, faults, state, mainVars, failed, external, equiv>>

\* lib.rs:68-72
CleanDone ==
    /\ Running("clean_directory") /\ Top.pc = "Collapsed"
    /\ CleanReturns(OkUnit, "Done")
    /\ UNCHANGED <<fs, pre, faults, mainVars, failed, external, equiv>>

clean_directory ==
    \/ CleanSkip \/ CleanValidate \/ CleanPurge \/ CleanCollapse \/ CleanDone

\* -------------------------------------------------- callers of the library
Functions == {"clean_directory", "remove_junk_files", "remove_empty_dirs"}

\* The path the library's callers pass.
Root == <<RootNames[1]>>

\* A caller of the library (test.rs) calls one of its public functions.
Call(fn) ==
    /\ stack = <<>>
    /\ Len(done) < MaxCalls
    /\ stack' = <<Frame(fn, Root, EntryPc(fn))>>
    /\ pre' = fs
    /\ last' = NoCall
    /\ state' = IF fn = "clean_directory" THEN "Unvalidated" ELSE state
    /\ failed' = NoFailure
    /\ external' = {}
    /\ UNCHANGED <<fs, done, faults, mainVars, equiv>>

CallClean == Call("clean_directory")
CallJunk == Call("remove_junk_files")
CallEmpty == Call("remove_empty_dirs")

Init ==
    /\ fs \in Trees(MaxEntries, {RootNames[1]})
    /\ stack = <<>>
    /\ done = <<>>
    /\ pre = fs
    /\ last = NoCall
    /\ faults = 0
    /\ failed = NoFailure
    /\ external = {}
    /\ equiv = NoRun
    /\ state = "Idle"
    /\ target_dirs = <<>>
    /\ index = 0
    /\ success_count = 0
    /\ error_count = 0
    /\ exit_code = -1

Next ==
    \/ CallClean \/ CallJunk \/ CallEmpty
    \/ clean_directory \/ remove_junk_files \/ remove_empty_dirs

Spec == Init /\ [][Next]_vars


\* ------------------------------------------------------------------- main
\* main.rs:46-55: the loop takes the next root and calls clean_directory.
MainCall ==
    /\ exit_code = -1
    /\ stack = <<>>
    /\ Len(done) = index
    /\ index < Len(target_dirs)
    /\ stack' = <<Frame("clean_directory", target_dirs[index + 1], "Unvalidated")>>
    /\ pre' = fs
    /\ last' = NoCall
    /\ state' = "Unvalidated"
    /\ failed' = NoFailure
    /\ external' = {}
    /\ UNCHANGED <<fs, done, faults, mainVars, equiv>>

\* main.rs:57-59
MainMatchOk ==
    /\ exit_code = -1
    /\ stack = <<>>
    /\ Len(done) = index + 1
    /\ done[index + 1].ret.ok
    /\ success_count' = success_count + 1
    /\ index' = index + 1
    /\ UNCHANGED <<fs, stack, done, pre, last, faults, state, target_dirs, error_count, exit_code, failed, external, equiv>>

break_on_error(n, len) == len
\* main.rs:61-67: the index of the next root after a failed one.
continue_on_error(n, len) == n + 1

\* main.rs:61-65
MainMatchErr ==
    /\ exit_code = -1
    /\ stack = <<>>
    /\ Len(done) = index + 1
    /\ ~done[index + 1].ret.ok
    /\ error_count' = error_count + 1
    /\ index' = continue_on_error(index, Len(target_dirs))
    /\ UNCHANGED <<fs, stack, done, pre, last, faults, state, target_dirs, success_count, exit_code, failed, external, equiv>>

exit_status_no_success(successes, errors) == IF successes = 0 THEN 1 ELSE 0
\* main.rs:79-82: exit(1) when a root failed, otherwise main returns.
exit_status(successes, errors) == IF errors > 0 THEN 1 ELSE 0

\* main.rs:70-82
MainExit ==
    /\ exit_code = -1
    /\ stack = <<>>
    /\ index >= Len(target_dirs)
    /\ Len(done) <= index
    /\ exit_code' = exit_status(success_count, error_count)
    /\ UNCHANGED <<fs, stack, done, pre, last, faults, state, target_dirs, index,
                   success_count, error_count, failed, external, equiv>>

main == MainCall \/ MainMatchOk \/ MainMatchErr \/ MainExit

BatchRoots == {RootNames[i] : i \in 1..MaxRoots}

\* main.rs:12-31: one root per positional argument (the current directory
\* when there is none), in the order given.
InitMain ==
    /\ fs \in Trees(MaxBatchEntries, BatchRoots)
    /\ target_dirs \in UNION {[1..n -> {<<r>> : r \in BatchRoots}] : n \in 1..MaxRoots}
    /\ stack = <<>>
    /\ done = <<>>
    /\ pre = fs
    /\ last = NoCall
    /\ faults = 0
    /\ failed = NoFailure
    /\ external = {}
    /\ equiv = NoRun
    /\ state = "Idle"
    /\ index = 0
    /\ success_count = 0
    /\ error_count = 0
    /\ exit_code = -1

NextMain == main \/ clean_directory \/ remove_junk_files \/ remove_empty_dirs

SpecMain == InitMain /\ [][NextMain]_vars

\* main runs in one thread and every call is synchronous (main.rs:46-67): a
\* step that can be taken is taken.
\* The batches of the fair specification: the first n root names, each given
\* once, over every filesystem with at most MaxFairEntries entries.
InitFair ==
    /\ fs \in Trees(MaxFairEntries, BatchRoots)
    /\ target_dirs \in {[i \in 1..n |-> <<RootNames[i]>>] : n \in 1..MaxRoots}
    /\ stack = <<>>
    /\ done = <<>>
    /\ pre = fs
    /\ last = NoCall
    /\ faults = 0
    /\ failed = NoFailure
    /\ external = {}
    /\ equiv = NoRun
    /\ state = "Idle"
    /\ index = 0
    /\ success_count = 0
    /\ error_count = 0
    /\ exit_code = -1

FairMain == InitFair /\ [][NextMain]_vars /\ WF_vars(NextMain)



\* ------------------------------------------- another process (lib.rs:221-223)
\* While a call of remove_empty_dirs is running, another process deletes a
\* directory with everything below it; at most once per call.
ExternalDelete ==
    /\ stack # <<>>
    /\ external = {}
    /\ \E d \in DOMAIN fs :
        /\ fs[d] = "dir"
        /\ fs' = Without(fs, Subtree(fs, d))
        /\ external' = {q \in Subtree(fs, d) : fs[q] = "dir"}
    /\ UNCHANGED <<stack, done, pre, last, faults, failed, state, mainVars, equiv>>

NextExt == CallEmpty \/ remove_empty_dirs \/ ExternalDelete

SpecExt == Init /\ [][NextExt]_vars

\* ------------------------------------- the two copies, run to completion
\* What the run is given besides the filesystem: the number of the filesystem
\* operation that fails (0: none does) and the order in which read_dir yields
\* the entries.
Oracles == [fail_at : 0..MaxFailAt, rev : BOOLEAN]
\* The operation made after n others fails.
FailsAt(n, o) == n + 1 = o.fail_at
\* The value returned, the filesystem left, the number of operations made.
Out(r, f, n) == [ret |-> r, fs |-> f, n |-> n]

\* An order of the names, for the listings.
NameOrder == <<"thumbs.db", ".DS_Store", "Thumbs.db", "\\xFFthumbs.db">>
Rank(name) == CHOOSE i \in DOMAIN NameOrder : NameOrder[i] = name
RECURSIVE Listing(_, _)
\* The entries S as fs::read_dir yields them, in name order or its reverse.
Listing(S, rev) ==
    IF S = {} THEN <<>>
    ELSE LET x == CHOOSE x \in S : \A y \in S :
                    IF rev THEN Rank(Last(x)) >= Rank(Last(y))
                    ELSE Rank(Last(x)) <= Rank(Last(y))
         IN  <<x>> \o Listing(S \ {x}, rev)

\* ---- lib.rs

RECURSIVE lib_remove_junk_files(_, _, _, _), lib_junk_loop(_, _, _, _, _)
\* lib.rs:76-144: remove_junk_files run to its return on filesystem f, n filesystem
\* operations having been made before it.
lib_remove_junk_files(f, dir, n, o) ==
    IF FailsAt(n, o) \/ ~CanReadDir(f, dir) THEN Out(Err, f, n + 1)
    ELSE lib_junk_loop(Listing(Children(f, dir), o.rev), f, n + 1, 0, o)

\* lib.rs:90-141: the loop over the entries; es are the entries not yet yielded.
lib_junk_loop(es, f, n, count, o) ==
    IF FailsAt(n, o) THEN Out(Err, f, n + 1)
    ELSE IF es = <<>> THEN Out(OkCount(count), f, n + 1)
    ELSE LET e == Head(es)
             m == n + 1
         IN  IF IsFile(f, e)
             THEN IF IsJunkName(Last(e))
                  THEN IF FailsAt(m, o) \/ ~remove_file(f, e).ok
                       THEN Out(Err, f, m + 1)
                       ELSE lib_junk_loop(Tail(es), remove_file(f, e).fs, m + 1, count + 1, o)
                  ELSE lib_junk_loop(Tail(es), f, m, count, o)
             ELSE IF IsDir(f, e)
             THEN LET r == lib_remove_junk_files(f, e, m, o)
                  IN  IF ~r.ret.ok THEN Out(Err, r.fs, r.n)
                      ELSE lib_junk_loop(Tail(es), r.fs, r.n, count + r.ret.count, o)
             ELSE lib_junk_loop(Tail(es), f, m, count, o)

RECURSIVE lib_remove_empty_dirs(_, _, _, _), lib_collect(_, _, _, _, _), lib_recurse(_, _, _, _)
\* lib.rs:200-229: the second read_dir and what follows it.
lib_recheck(f, dir, n, o) ==
    IF FailsAt(n, o) \/ ~CanReadDir(f, dir) THEN Out(OkBool(TRUE), f, n + 1)
    ELSE IF FailsAt(n + 1, o) THEN Out(OkBool(FALSE), f, n + 2)
    ELSE IF Children(f, dir) # {} THEN Out(OkBool(FALSE), f, n + 2)
    ELSE IF FailsAt(n + 2, o) \/ ~remove_dir(f, dir).ok THEN Out(Err, f, n + 3)
    ELSE Out(OkBool(TRUE), remove_dir(f, dir).fs, n + 3)

\* lib.rs:147-230: remove_empty_dirs run to its return.
lib_remove_empty_dirs(f, dir, n, o) ==
    IF ~Exists(f, dir) THEN Out(OkBool(FALSE), f, n)
    ELSE IF ~IsDir(f, dir) THEN Out(OkBool(FALSE), f, n)
    ELSE LET a == IF FailsAt(n, o) \/ ~CanReadDir(f, dir) THEN Out(OkUnit, f, n + 1)
                  ELSE lib_collect(Listing(Children(f, dir), o.rev), <<>>, f, n + 1, o)
         IN  IF ~a.ret.ok THEN a ELSE lib_recheck(a.fs, dir, a.n, o)

\* lib.rs:173-185: the subdirectories among the entries are collected.
lib_collect(es, subdirs, f, n, o) ==
    IF FailsAt(n, o) THEN Out(Err, f, n + 1)
    ELSE IF es = <<>> THEN lib_recurse(subdirs, f, n + 1, o)
    ELSE lib_collect(Tail(es),
                  IF IsDir(f, Head(es)) THEN Append(subdirs, Head(es)) ELSE subdirs,
                  f, n + 1, o)

\* lib.rs:189-194: the recursion into each collected subdirectory.
lib_recurse(subdirs, f, n, o) ==
    IF subdirs = <<>> THEN Out(OkUnit, f, n)
    ELSE LET r == lib_remove_empty_dirs(f, Head(subdirs), n, o)
         IN  IF ~r.ret.ok THEN Out(Err, r.fs, r.n)
             ELSE lib_recurse(Tail(subdirs), r.fs, r.n, o)

\* lib.rs:15-73: clean_directory run to its return.
lib_clean_directory(f, dir, n, o) ==
    IF ~Exists(f, dir) THEN Out(OkUnit, f, n)
    ELSE IF ~IsDir(f, dir) THEN Out(OkUnit, f, n)
    ELSE LET p == lib_remove_junk_files(f, dir, n, o)
         IN  IF ~p.ret.ok THEN Out(Err, p.fs, p.n)
             ELSE LET c == lib_remove_empty_dirs(p.fs, dir, p.n, o)
                  IN  IF ~c.ret.ok THEN Out(Err, c.fs, c.n)
                      ELSE Out(OkUnit, c.fs, c.n)

\* ---- main.rs
main_JUNK_FILES_drifted == <<"thumbs.db">>
\* main.rs:9
main_JUNK_FILES == <<"thumbs.db", ".DS_Store">>
\* main.rs:182-191
main_IsJunkName(name) == \E s \in to_str(name) : contains(main_JUNK_FILES, s)

RECURSIVE main_remove_junk_files(_, _, _, _), main_junk_loop(_, _, _, _, _)
\* main.rs:153-221: remove_junk_files run to its return on filesystem f, n filesystem
\* operations having been made before it.
main_remove_junk_files(f, dir, n, o) ==
    IF FailsAt(n, o) \/ ~CanReadDir(f, dir) THEN Out(Err, f, n + 1)
    ELSE main_junk_loop(Listing(Children(f, dir), o.rev), f, n + 1, 0, o)

\* main.rs:167-218: the loop over the entries; es are the entries not yet yielded.
main_junk_loop(es, f, n, count, o) ==
    IF FailsAt(n, o) THEN Out(Err, f, n + 1)
    ELSE IF es = <<>> THEN Out(OkCount(count), f, n + 1)
    ELSE LET e == Head(es)
             m == n + 1
         IN  IF IsFile(f, e)
             THEN IF main_IsJunkName(Last(e))
                  THEN IF FailsAt(m, o) \/ ~remove_file(f, e).ok
                       THEN Out(Err, f, m + 1)
                       ELSE main_junk_loop(Tail(es), remove_file(f, e).fs, m + 1, count + 1, o)
                  ELSE main_junk_loop(Tail(es), f, m, count, o)
             ELSE IF IsDir(f, e)
             THEN LET r == main_remove_junk_files(f, e, m, o)
                  IN  IF ~r.ret.ok THEN Out(Err, r.fs, r.n)
                      ELSE main_junk_loop(Tail(es), r.fs, r.n, count + r.ret.count, o)
             ELSE main_junk_loop(Tail(es), f, m, count, o)

RECURSIVE main_remove_empty_dirs(_, _, _, _), main_collect(_, _, _, _, _), main_recurse(_, _, _, _)
\* main.rs:280-309: the second read_dir and what follows it.
main_recheck(f, dir, n, o) ==
    IF FailsAt(n, o) \/ ~CanReadDir(f, dir) THEN Out(OkBool(TRUE), f, n + 1)
    ELSE IF FailsAt(n + 1, o) THEN Out(OkBool(FALSE), f, n + 2)
    ELSE IF Children(f, dir) # {} THEN Out(OkBool(FALSE), f, n + 2)
    ELSE IF FailsAt(n + 2, o) \/ ~remove_dir(f, dir).ok THEN Out(Err, f, n + 3)
    ELSE Out(OkBool(TRUE), remove_dir(f, dir).fs, n + 3)

\* main.rs:224-310: remove_empty_dirs run to its return.
main_remove_empty_dirs(f, dir, n, o) ==
    IF ~Exists(f, dir) THEN Out(OkBool(FALSE), f, n)
    ELSE IF ~IsDir(f, dir) THEN Out(OkBool(FALSE), f, n)
    ELSE LET a == IF FailsAt(n, o) \/ ~CanReadDir(f, dir) THEN Out(OkUnit, f, n + 1)
                  ELSE main_collect(Listing(Children(f, dir), o.rev), <<>>, f, n + 1, o)
         IN  IF ~a.ret.ok THEN a ELSE main_recheck(a.fs, dir, a.n, o)

\* main.rs:253-265: the subdirectories among the entries are collected.
main_collect(es, subdirs, f, n, o) ==
    IF FailsAt(n, o) THEN Out(Err, f, n + 1)
    ELSE IF es = <<>> THEN main_recurse(subdirs, f, n + 1, o)
    ELSE main_collect(Tail(es),
                  IF IsDir(f, Head(es)) THEN Append(subdirs, Head(es)) ELSE subdirs,
                  f, n + 1, o)

\* main.rs:269-274: the recursion into each collected subdirectory.
main_recurse(subdirs, f, n, o) ==
    IF subdirs = <<>> THEN Out(OkUnit, f, n)
    ELSE LET r == main_remove_empty_dirs(f, Head(subdirs), n, o)
         IN  IF ~r.ret.ok THEN Out(Err, r.fs, r.n)
             ELSE main_recurse(Tail(subdirs), r.fs, r.n, o)

\* main.rs:91-149: clean_directory run to its return.
main_clean_directory(f, dir, n, o) ==
    IF ~Exists(f, dir) THEN Out(OkUnit, f, n)
    ELSE IF ~IsDir(f, dir) THEN Out(OkUnit, f, n)
    ELSE LET p == main_remove_junk_files(f, dir, n, o)
         IN  IF ~p.ret.ok THEN Out(Err, p.fs, p.n)
             ELSE LET c == main_remove_empty_dirs(p.fs, dir, p.n, o)
                  IN  IF ~c.ret.ok THEN Out(Err, c.fs, c.n)
                      ELSE Out(OkUnit, c.fs, c.n)

\* One function is run in both copies on the same filesystem with the same
\* oracle.
RunBoth(fn) ==
    /\ equiv = NoRun
    /\ \E o \in Oracles :
        equiv' = [fn |-> fn, oracle |-> o, before |-> fs,
                  lib |-> IF fn = "clean_directory" THEN lib_clean_directory(fs, Root, 0, o)
                          ELSE IF fn = "remove_junk_files" THEN lib_remove_junk_files(fs, Root, 0, o)
                          ELSE lib_remove_empty_dirs(fs, Root, 0, o),
                  main |-> IF fn = "clean_directory" THEN main_clean_directory(fs, Root, 0, o)
                           ELSE IF fn = "remove_junk_files" THEN main_remove_junk_files(fs, Root, 0, o)
                           ELSE main_remove_empty_dirs(fs, Root, 0, o)]
    /\ UNCHANGED <<fs, stack, done, pre, last, faults, failed, external, state, mainVars>>

RunBothClean == RunBoth("clean_directory")
RunBothJunk == RunBoth("remove_junk_files")
RunBothEmpty == RunBoth("remove_empty_dirs")

InitEquiv ==
    /\ fs \in Trees(MaxEquivEntries, {RootNames[1]})
    /\ stack = <<>>
    /\ done = <<>>
    /\ pre = fs
    /\ last = NoCall
    /\ faults = 0
    /\ failed = NoFailure
    /\ external = {}
    /\ equiv = NoRun
    /\ state = "Idle"
    /\ target_dirs = <<>>
    /\ index = 0
    /\ success_count = 0
    /\ error_count = 0
    /\ exit_code = -1

NextEquiv == RunBothClean \/ RunBothJunk \/ RunBothEmpty

SpecEquiv == InitEquiv /\ [][NextEquiv]_vars

\* ================================================================ claims
\* The denylist as the specification words it.
Denylist == {"thumbs.db", ".DS_Store"}

\* A regular file of f whose base name is on the denylist.
DenylistedFile(f, q) == q \in DOMAIN f /\ f[q] = "file" /\ Last(q) \in Denylist
\* An entry of f that is neither a directory nor a denylisted regular file.
KeptEntry(f, q) == q \in DOMAIN f /\ f[q] # "dir" /\ ~DenylistedFile(f, q)
\* The directory d of f has no entry other than directories below it.
OnlyDirsBelow(f, d) == \A q \in Subtree(f, d) : f[q] = "dir"

\* The top-level call in progress, or the last one completed, is a call of fn.
TopLevel(fn) ==
    \/ stack # <<>> /\ stack[1].fn = fn
    \/ stack = <<>> /\ done # <<>> /\ done[Len(done)].fn = fn
\* A top-level call of fn has just returned; pre is the filesystem it began on.
Completed(fn) == stack = <<>> /\ done # <<>> /\ done[Len(done)].fn = fn
Result == done[Len(done)].ret

\* C1: when a top-level remove_junk_files(root) returns Ok(n), no regular
\* file named "thumbs.db" or ".DS_Store" is left anywhere under root, and n is
\* the number of such files the subtree held, at every depth, before the call.
C1_PurgeRemovesAndCounts ==
    (Completed("remove_junk_files") /\ Result.ok) =>
        /\ \A q \in Subtree(fs, Root) : ~DenylistedFile(fs, q)
        /\ Result.count = Cardinality({q \in Subtree(pre, Root) : DenylistedFile(pre, q)})

\* A purge that returned Ok(2) after deleting both denylist names, one of them
\* two levels below the root.
C1_Witness ==
    /\ Completed("remove_junk_files") /\ Result.ok /\ Result.count = 2
    /\ \E q \in DOMAIN pre : Len(q) = 3 /\ DenylistedFile(pre, q) /\ Last(q) = ".DS_Store"
    /\ \E q \in DOMAIN pre : Len(q) = 2 /\ DenylistedFile(pre, q) /\ Last(q) = "thumbs.db"

\* C2: during and after a top-level remove_junk_files, successful or failed,
\* every file whose base name is not exactly a denylist entry is still there;
\* and a tree without a matching file yields the count 0.
C2_PurgeKeepsOtherFiles ==
    /\ TopLevel("remove_junk_files") =>
          \A q \in DOMAIN pre :
              (pre[q] = "file" /\ Last(q) \notin Denylist) => (q \in DOMAIN fs /\ fs[q] = "file")
    /\ (Completed("remove_junk_files") /\ Result.ok
            /\ \A q \in Subtree(pre, Root) : ~DenylistedFile(pre, q))
          => Result.count = 0

\* A failed purge that had already deleted a junk file, next to files named
\* "Thumbs.db" and with a name that is not UTF-8.
C2_Witness ==
    /\ Completed("remove_junk_files") /\ ~Result.ok /\ fs # pre
    /\ \E q \in DOMAIN pre : pre[q] = "file" /\ Last(q) = "Thumbs.db"
    /\ \E q \in DOMAIN pre : pre[q] = "file" /\ Last(q) \in NotUtf8

\* C3: a second remove_junk_files(root) right after a successful one deletes
\* nothing: the filesystem is unchanged, a count it returns is 0, and it does
\* return Ok(0) when no filesystem operation fails under it.
C3_PurgeIdempotent ==
    (/\ stack = <<>> /\ Len(done) >= 2
     /\ done[Len(done) - 1].fn = "remove_junk_files" /\ done[Len(done) - 1].ret.ok
     /\ done[Len(done)].fn = "remove_junk_files")
    => /\ fs = pre
       /\ Result.ok => Result.count = 0
       /\ faults = 0 => Result = OkCount(0)

\* Two purges in a row, the first of which deleted something.
C3_Witness ==
    /\ stack = <<>> /\ Len(done) = 2
    /\ done[1].fn = "remove_junk_files" /\ done[1].ret.ok /\ done[1].ret.count > 0
    /\ done[2].fn = "remove_junk_files" /\ done[2].ret = OkCount(0)


\* A file (any entry that is not a directory) of f, and the directories that
\* lead to it from the root.
OnPathToFile(f, p) == \E q \in DOMAIN f : f[q] # "dir" /\ IsPrefix(p, q)

\* C4: during and after a top-level remove_empty_dirs, every file of the tree
\* and every directory between the root and a file still exists; the function
\* never even asks for the removal of a directory that has an entry.
C4_CollapseKeepsFiles ==
    /\ TopLevel("remove_empty_dirs") =>
          \A p \in DOMAIN pre : OnPathToFile(pre, p) => (p \in DOMAIN fs /\ fs[p] = pre[p])
    /\ (Running("remove_empty_dirs") /\ Top.pc = "remove_dir") => Children(fs, Top.dir) = {}

\* A collapse that removed an empty directory and kept a file two levels down
\* together with the directories above it.
C4_Witness ==
    /\ Completed("remove_empty_dirs") /\ Result = OkBool(FALSE) /\ fs # pre
    /\ \E q \in DOMAIN pre : Len(q) = 3 /\ pre[q] = "file"
    /\ \A p \in DOMAIN pre : OnPathToFile(pre, p) => p \in DOMAIN fs

\* C5: a top-level remove_empty_dirs(root) that returns Ok, with no I/O
\* failure, has deleted every directory whose subtree held no file, whatever
\* the depth of the chain, and each call made on such a directory returned
\* true.
C5_CollapseRemovesEmpty ==
    /\ (Completed("remove_empty_dirs") /\ Result.ok /\ faults = 0) =>
          /\ \A d \in DOMAIN pre : (pre[d] = "dir" /\ OnlyDirsBelow(pre, d)) => d \notin DOMAIN fs
          /\ (IsDir(pre, Root) /\ OnlyDirsBelow(pre, Root)) => Result.removed
    /\ (TopLevel("remove_empty_dirs") /\ faults = 0 /\ last.fn = "remove_empty_dirs"
            /\ IsDir(pre, last.dir) /\ OnlyDirsBelow(pre, last.dir))
          => (last.ret = OkBool(TRUE) /\ last.dir \notin DOMAIN fs)

\* A chain of three nested, otherwise empty directories, all removed by one
\* call that returned true.
C5_Witness ==
    /\ Completed("remove_empty_dirs") /\ Result = OkBool(TRUE) /\ faults = 0
    /\ \E q \in DOMAIN pre : Len(q) = 3 /\ pre[q] = "dir"
    /\ fs = EmptyFs

\* C6: remove_empty_dirs on a path that does not exist, or that is not a
\* directory, returns Ok(false) and leaves the filesystem as it was.
C6_CollapseNotADirectory ==
    (Completed("remove_empty_dirs") /\ ~IsDir(pre, Root)) =>
        (Result = OkBool(FALSE) /\ fs = pre)

\* The call returned on a root that is a regular file.
C6_Witness ==
    /\ Completed("remove_empty_dirs") /\ IsFile(pre, Root) /\ Result = OkBool(FALSE)

\* The call returned on a root that does not exist.
C6_WitnessMissing ==
    /\ Completed("remove_empty_dirs") /\ ~Exists(pre, Root) /\ Result = OkBool(FALSE)


\* The four conclusions of C7 about a clean_directory(root) that returned Ok
\* on an existing directory.
DenylistedGone == \A q \in Subtree(fs, Root) : ~DenylistedFile(fs, q)
KeptEntriesStay == \A q \in DOMAIN pre : KeptEntry(pre, q) => (q \in DOMAIN fs /\ fs[q] = pre[q])
JunkOnlySubdirsGone ==
    \A d \in DOMAIN pre :
        (pre[d] = "dir" /\ d # Root /\ ~\E q \in Subtree(pre, d) : KeptEntry(pre, q))
            => d \notin DOMAIN fs
RootStaysIfKept == (\E q \in Subtree(pre, Root) : KeptEntry(pre, q)) => IsDir(fs, Root)

CleanedOk == Completed("clean_directory") /\ Result.ok /\ IsDir(pre, Root)

C8_CleanSkipsInvalidRoot ==
    (TopLevel("clean_directory") /\ ~IsDir(pre, Root)) =>
        /\ fs = pre
        /\ stack # <<>> => (Len(stack) = 1 /\ Top.pc = "Unvalidated")
        /\ stack = <<>> => (Result = OkUnit /\ state = "Skipped")

\* clean_directory returned on a root that is a regular file.
C8_Witness ==
    /\ Completed("clean_directory") /\ IsFile(pre, Root)
    /\ Result = OkUnit /\ state = "Skipped"

\* clean_directory returned on a root that does not exist.
C8_WitnessMissing ==
    /\ Completed("clean_directory") /\ ~Exists(pre, Root)
    /\ Result = OkUnit /\ state = "Skipped"


\* main has left its loop and the process has its exit code.
Exited == exit_code # -1
\* The roots whose clean_directory returned Err.
FailedRoots == {i \in DOMAIN done : ~done[i].ret.ok}

\* C9: when the batch is over, clean_directory has been called on every root,
\* in the order given, and each call has returned, also the calls before and
\* after one that returned Err; and error_count is at least 1 when a call
\* returned Err.
C9_BatchContinuesAfterError ==
    Exited =>
        /\ Len(done) = Len(target_dirs)
        /\ \A i \in DOMAIN target_dirs :
              /\ done[i].fn = "clean_directory" /\ done[i].dir = target_dirs[i]
              /\ done[i].state \in {"Done", "Skipped", "Failed"}
        /\ FailedRoots # {} => error_count >= 1

\* A batch of two roots: the first failed, the second was cleaned to the end.
C9_Witness ==
    /\ Exited /\ Len(target_dirs) = 2 /\ Len(done) = 2
    /\ ~done[1].ret.ok /\ done[1].state = "Failed"
    /\ done[2].ret.ok /\ done[2].state = "Done"
    /\ target_dirs[2] \notin DOMAIN fs

\* C10: the exit code is 1 exactly when clean_directory returned Err for some
\* root and 0 otherwise; a skipped root is counted as a success; success_count
\* and error_count add up to the number of roots.
C10_ExitCode ==
    Exited =>
        /\ exit_code = (IF FailedRoots # {} THEN 1 ELSE 0)
        /\ success_count + error_count = Len(target_dirs)
        /\ error_count = Cardinality(FailedRoots)
        /\ \A i \in DOMAIN done : done[i].state = "Skipped" => done[i].ret.ok

\* A batch that exits with 1 although one of its roots was skipped and counted
\* as a success.
C10_Witness ==
    /\ Exited /\ exit_code = 1 /\ success_count = 1 /\ error_count = 1
    /\ \E i \in DOMAIN done : done[i].state = "Skipped"

\* A batch in which every root was skipped exits with 0.
C10_WitnessZero ==
    /\ Exited /\ exit_code = 0 /\ success_count = 2
    /\ \A i \in DOMAIN done : done[i].state = "Skipped"


\* The innermost frame, a call of fn, returns in this step.
ReturnsFrom(fn) == Running(fn) /\ Len(stack') < Len(stack)
\* A filesystem operation fails in this step.
FailsNow == failed' # failed

C11_WitnessUnreadable ==
    /\ last.fn = "remove_empty_dirs" /\ last.ret = OkBool(TRUE)
    /\ failed = Failure("read_dir", 200, last.dir) /\ IsDir(fs, last.dir)


\* The operation that failed most recently belongs to the junk purge, or to
\* the collapse of empty directories.
PurgeFailed == failed.op # "none" /\ failed.line \in {83, 91, 123}
CollapseFailed == failed.op # "none" /\ failed.line \in {164, 174, 200, 207, 212}
\* Every directory the call began with is still there.
DirsIntact == \A d \in DOMAIN pre : pre[d] = "dir" => IsDir(fs, d)

\* C12: once an operation of the junk purge has failed inside
\* clean_directory, clean_directory has returned Err, the last function to
\* return is remove_junk_files (remove_empty_dirs was not called), and every
\* directory the call began with is still there.
C12_PurgeFailureEndsClean ==
    (TopLevel("clean_directory") /\ PurgeFailed) =>
        /\ stack = <<>> /\ ~Result.ok /\ state = "Failed"
        /\ last.fn = "remove_junk_files"
        /\ DirsIntact

\* clean_directory failed in its purge after a junk file had been deleted,
\* and left an empty subdirectory in place.
C12_Witness ==
    /\ Completed("clean_directory") /\ ~Result.ok /\ PurgeFailed /\ fs # pre
    /\ \E d \in DOMAIN fs : d # Root /\ fs[d] = "dir" /\ Children(fs, d) = {}


\* remove_empty_dirs calls fs::remove_dir in this step (lib.rs:212): a
\* directory disappears, or the call fails.
RemoveDirNow ==
    /\ Running("remove_empty_dirs")
    /\ \/ \E d \in DOMAIN fs : fs[d] = "dir" /\ d \notin DOMAIN fs'
       \/ FailsNow /\ failed'.op = "remove_dir"

\* C13: whenever remove_empty_dirs removes a directory, or tries to, the
\* directory is the one of the innermost call, no collected subdirectory is
\* left to recurse into, and nothing exists below the directory: what the
\* call began with below it was deleted before it.
C13_DeletesBottomUp ==
    [][RemoveDirNow =>
          /\ Top.subdirs = {}
          /\ Subtree(fs, Top.dir) = {Top.dir}
          /\ \A q \in DOMAIN pre : (IsPrefix(Top.dir, q) /\ q # Top.dir) => q \notin DOMAIN fs
          /\ fs' # fs => fs' = Without(fs, {Top.dir})]_vars

\* A directory two levels below the root, its parent and the root were
\* removed, the deepest first.
C13_Witness ==
    /\ Completed("remove_empty_dirs") /\ Result = OkBool(TRUE)
    /\ Root \notin DOMAIN fs
    /\ \E q \in DOMAIN pre : Len(q) = 3 /\ pre[q] = "dir"
    /\ \E q \in DOMAIN pre : Len(q) = 2 /\ pre[q] = "dir" /\ Children(pre, q) = {}


\* C14 as stated: a call of remove_empty_dirs whose directory another process
\* deleted while the call was running returns Ok, whenever the deletion fell
\* (no injected failure being involved).
C14_DisappearanceIsNoError ==
    (last.fn = "remove_empty_dirs" /\ last.dir \in external /\ faults = 0) => last.ret.ok


\* C15: the step in which the second read_dir of a call of remove_empty_dirs
\* fails, whether the directory has vanished or is still there, makes that
\* call return Ok(true) to its caller, which goes on; nothing is deleted.
C15_RecheckFailureIsRemoved ==
    [][(FailsNow /\ failed'.op = "read_dir" /\ failed'.line = 200) =>
          /\ ReturnsFrom("remove_empty_dirs") /\ failed'.path = Top.dir
          /\ last' = [fn |-> "remove_empty_dirs", dir |-> Top.dir, ret |-> OkBool(TRUE)]
          /\ fs' = fs
          /\ \/ stack' = Rest
             \/ stack' = <<>> /\ done'[Len(done')].ret = OkBool(TRUE)]_vars

\* The second read_dir failed on a subdirectory that another process had
\* deleted; the call returned true and the call on the parent went on.
C15_Witness ==
    /\ last = [fn |-> "remove_empty_dirs", dir |-> failed.path, ret |-> OkBool(TRUE)]
    /\ failed.op = "read_dir" /\ failed.line = 200
    /\ failed.path \in external /\ faults = 0 /\ stack # <<>>

\* The second read_dir failed on a directory that is still there; the call
\* returned true and the directory was not deleted.
C15_WitnessStillThere ==
    /\ Completed("remove_empty_dirs") /\ Result = OkBool(TRUE)
    /\ failed = Failure("read_dir", 200, Root) /\ IsDir(fs, Root) /\ fs = pre


\* C16: the step in which remove_junk_files, at any depth, fails to enumerate
\* a directory or to delete a matched file ends the top-level call with Err
\* and changes nothing: the files deleted before it stay deleted, and no call
\* is left that could delete another entry.
C16_PurgeStopsAtFailure ==
    [][(Running("remove_junk_files") /\ FailsNow) =>
          /\ fs' = fs
          /\ stack' = <<>>
          /\ Len(done') = Len(done) + 1 /\ ~done'[Len(done')].ret.ok]_vars

\* A purge failed below the root after it had deleted a junk file, and left
\* another junk file in place.
C16_Witness ==
    /\ Completed("remove_junk_files") /\ ~Result.ok
    /\ PurgeFailed /\ Len(failed.path) >= 2
    /\ fs # pre
    /\ \E q \in DOMAIN fs : DenylistedFile(fs, q)


\* An operation of the collapse phase of clean_directory fails in this step.
CollapseFailsNow ==
    /\ Running("remove_empty_dirs") /\ stack[1].fn = "clean_directory"
    /\ FailsNow
\* This step ends clean_directory with Err.
CleanFailsNow ==
    /\ stack' = <<>> /\ state' = "Failed"
    /\ Len(done') = Len(done) + 1 /\ ~done'[Len(done')].ret.ok

C17_WitnessAbsorbed ==
    /\ CleanedOk /\ failed = Failure("read_dir", 164, Root) /\ Root \notin DOMAIN fs


\* The steps of clean_directory's state machine, and its final states.
StateOrder ==
    {<<"Unvalidated", "Validated">>, <<"Unvalidated", "Skipped">>,
     <<"Validated", "JunkPurged">>, <<"Validated", "Failed">>,
     <<"JunkPurged", "Collapsed">>, <<"JunkPurged", "Failed">>,
     <<"Collapsed", "Done">>}
Terminal == {"Done", "Skipped", "Failed"}

\* C18: the state of a run of clean_directory changes only along Unvalidated,
\* Validated, JunkPurged, Collapsed, Done, or to Skipped from Unvalidated, or
\* to Failed in a step in which an operation failed; the run is over exactly
\* when the state is Done, Skipped or Failed, and that state changes no more
\* until another run begins; and every directory the run began with is still
\* there while the state is Unvalidated or Validated.
C18_CleanStateMachine ==
    /\ [](TopLevel("clean_directory") =>
            /\ (stack = <<>>) <=> (state \in Terminal)
            /\ state \in {"Unvalidated", "Validated"} => DirsIntact)
    /\ [][state' # state =>
            /\ \/ <<state, state'>> \in StateOrder
               \/ stack = <<>> /\ state \in Terminal \cup {"Idle"} /\ state' = "Unvalidated"
            /\ state' = "Failed" => FailsNow]_vars

\* A run that reached Done after its purge deleted a junk file and its
\* collapse deleted a directory.
C18_Witness ==
    /\ Completed("clean_directory") /\ state = "Done" /\ ~DirsIntact
    /\ \E q \in DOMAIN pre : DenylistedFile(pre, q)

\* A run that failed in its collapse phase, after the purge had completed.
C18_WitnessFailed ==
    /\ Completed("clean_directory") /\ state = "Failed" /\ CollapseFailed
    /\ \E q \in DOMAIN pre : DenylistedFile(pre, q) /\ q \notin DOMAIN fs


\* The root's subtree held nothing but directories and denylisted files.
OnlyJunkBelowRoot == ~\E q \in Subtree(pre, Root) : KeptEntry(pre, q)

C19_WitnessKept ==
    /\ CleanedOk /\ DOMAIN pre = {Root} /\ IsDir(fs, Root)
    /\ failed = Failure("read_dir", 200, Root)


\* remove_junk_files takes the entry e from its listing in this step.
TakesEntry(e) ==
    /\ Running("remove_junk_files") /\ Top.pc = "loop" /\ e \in Top.entries
    /\ Len(stack') >= Len(stack) /\ e \notin stack'[Len(stack)].entries

\* C20: every step that changes the filesystem removes exactly one entry and
\* leaves every other entry as it was; the entry is not a directory when
\* remove_junk_files takes the step and is a directory when remove_empty_dirs
\* does; and remove_junk_files, taking an entry that is a directory, whatever
\* its name, deletes nothing and calls itself on that directory.
C20_DisjointEffects ==
    [][/\ fs' # fs =>
            \E p \in DOMAIN fs :
                /\ fs' = Without(fs, {p})
                /\ \/ Running("remove_junk_files") /\ fs[p] # "dir"
                   \/ Running("remove_empty_dirs") /\ fs[p] = "dir"
       /\ \A e \in DOMAIN fs : (TakesEntry(e) /\ fs[e] = "dir") =>
            /\ fs' = fs
            /\ stack' = Append(SetTop([Top EXCEPT !.entries = @ \ {e}]),
                               Frame("remove_junk_files", e, "read_dir"))]_vars

\* The purge is inside a directory named "thumbs.db": it has deleted the junk
\* file that was in it, and the directory is still there.
C20_Witness ==
    /\ Running("remove_junk_files") /\ Len(stack) >= 2
    /\ Last(Top.dir) = "thumbs.db" /\ IsDir(fs, Top.dir)
    /\ Top.deleted_count = 1 /\ Children(fs, Top.dir) = {}

\* A collapse, called after a purge, deleted a directory named "thumbs.db"
\* and left a file beside it.
C20_WitnessCollapse ==
    /\ Completed("remove_empty_dirs") /\ Len(done) = 2
    /\ done[1].fn = "remove_junk_files" /\ done[1].ret.ok
    /\ \E d \in DOMAIN pre : pre[d] = "dir" /\ Last(d) = "thumbs.db" /\ d \notin DOMAIN fs
    /\ \E q \in DOMAIN fs : fs[q] = "file"


\* C21: in a batch, without external mutation, every call of clean_directory
\* that has begun comes to its end in Done, Skipped or Failed, and the batch
\* itself comes to its end with one completed call for every root.
C21_Terminates ==
    /\ [](stack # <<>> => <>(stack = <<>> /\ state \in Terminal))
    /\ <>(Exited /\ Len(done) = Len(target_dirs)
            /\ \A i \in DOMAIN done : done[i].state \in Terminal)

\* A batch of two roots has ended: the first root was cleaned to the end and
\* the second failed.
C21_Witness ==
    /\ Exited /\ Len(target_dirs) = 2 /\ Len(done) = 2
    /\ done[1].state = "Done" /\ done[2].state = "Failed"
    /\ fs = EmptyFs \/ DOMAIN fs = {target_dirs[2]}

\* A batch of one root, three levels deep, has ended with the root cleaned
\* away.
C21_WitnessDeep ==
    /\ Exited /\ Len(done) = 1 /\ done[1].state = "Done"
    /\ \E q \in DOMAIN pre : Len(q) = 3
    /\ fs = EmptyFs /\ faults = 0 /\ success_count = 1


\* Two calls of remove_empty_dirs(root) in a row have returned, the first
\* with Ok; pre is the filesystem the first call left.
CollapsedTwice ==
    /\ stack = <<>> /\ Len(done) >= 2
    /\ done[Len(done) - 1].fn = "remove_empty_dirs" /\ done[Len(done) - 1].ret.ok
    /\ done[Len(done)].fn = "remove_empty_dirs"

C22_WitnessRemoved ==
    /\ CollapsedTwice /\ faults = 0 /\ Len(done) = 2
    /\ done[1].ret = OkBool(TRUE) /\ Result = OkBool(FALSE) /\ fs = EmptyFs

\* The first call returned Ok after a failed read_dir and left an empty
\* subdirectory; the second call deleted it.
C22_WitnessSecondDeletes ==
    /\ CollapsedTwice /\ failed = NoFailure /\ faults = 1 /\ fs # pre


\* C23: run on the same filesystem with the same failing operation and the
\* same listing order, the main.rs copy and the lib.rs copy of each function
\* return the same value and leave the same filesystem.
C23_CopiesAgree ==
    equiv # NoRun => (equiv.main.ret = equiv.lib.ret /\ equiv.main.fs = equiv.lib.fs)

\* Both copies of clean_directory failed at the same operation, after having
\* deleted a ".DS_Store" file.
C23_Witness ==
    /\ equiv # NoRun /\ equiv.fn = "clean_directory"
    /\ ~equiv.lib.ret.ok /\ ~equiv.main.ret.ok
    /\ \E q \in DOMAIN equiv.before :
          Last(q) = ".DS_Store" /\ q \notin DOMAIN equiv.main.fs /\ q \notin DOMAIN equiv.lib.fs

\* Both copies of clean_directory cleaned a tree three levels deep away.
C23_WitnessClean ==
    /\ equiv # NoRun /\ equiv.fn = "clean_directory" /\ equiv.oracle.fail_at = 0
    /\ \E q \in DOMAIN equiv.before : Len(q) = 3
    /\ equiv.lib.fs = EmptyFs /\ equiv.main = equiv.lib

====
